---------------------------- MODULE Spec2Model ----------------------------
(***************************************************************************)
(* Website tracker bot (b.py): the scheduled check cycle                   *)
(* check_website_updates, the /track, /untrack and /documents handlers,    *)
(* the persisted store user_data.json and the temporary files the          *)
(* handlers create in the working directory.                               *)
(*                                                                         *)
(* Every coroutine is cut at its awaits: a position of a task names the    *)
(* await it is suspended in, and one action is the completion of that      *)
(* await (with its outcome) followed by the synchronous code up to the     *)
(* next await.  The position "entry" of the check cycle is not an await:   *)
(* it is the head of the loop over the tracked URLs, and no other task     *)
(* runs while the cycle is there (the fetch is a blocking requests.get).   *)
(***************************************************************************)
EXTENDS Integers, Sequences, FiniteSets, TLC

\* ------------------------------------------------------------------ bounds
\* Scheduler fires of check_website_updates explored.
MaxFires == 2
\* Commands (/track, /untrack, /documents) explored.
MaxCmds == 2

\* --------------------------------------------------------------- constants
\* Telegram ids are written as their decimal digits (OWNER_ID does not fit
\* the model checker's integers).
OWNER_ID == "6556141430"
MAX_FILE_SIZE == 47185920
\* Ids of the other senders of the model: a sudo user, a user who is neither
\* owner nor sudo, and a channel that is not on the allow-list.
SudoId == "1001"
StrangerId == "2002"
ChannelId == "-1003003"
GroupId == "-4004"
\* message.from_user is None
NoId == ""

\* None, as a file name, a fetched content, a user id and a url.
NoFile == [base |-> <<>>, ext |-> ""]
NoContent == [body |-> 0 - 1, links |-> <<>>]
NoUser == <<>>
NoUrl == [scheme |-> "", host |-> "", path |-> "", ext |-> ""]

DOCUMENT_EXTS == {".pdf", ".doc", ".docx", ".xls", ".xlsx", ".ppt", ".pptx", ".txt"}
IMAGE_EXTS == {".jpg", ".jpeg", ".png", ".gif", ".webp", ".bmp"}
ALLOWED_EXTS == DOCUMENT_EXTS \cup IMAGE_EXTS

\* sudo_users.json and authorized_channels.json: no handler of b.py writes them.
load_sudo_users == {SudoId}
load_channels == {}

is_authorized_user(user_id) == user_id = OWNER_ID \/ user_id \in load_sudo_users
is_authorized_channel(channel_id) == channel_id \in load_channels

\* str(id): the key of user_data.json and the chat_id of the sends.
Str(n) == <<"str", n>>

\* -------------------------------------------------------------------- URLs
\* A URL is scheme + host + path + extension of the path; a relative href has
\* an empty scheme and host.
Url(s, h, p, e) == [scheme |-> s, host |-> h, path |-> p, ext |-> e]
Rel(p, e) == Url("", "", p, e)

U1 == Url("https://", "h1", "/docs", "")
U2 == Url("http://", "h2", "/docs", "")
UBad == Url("ftp://", "h1", "/docs", "")
PageUrls == {U1, U2}
\* The urls the commands of the explored runs name.
CmdUrls == {U1, UBad}

\* url.startswith(('http://', 'https://'))
StartsWithAnyScheme(url) == url.scheme # ""
StartsWithHttp(url) == url.scheme \in {"http://", "https://"}

get_domain(url) == url.host

\* urljoin(base_url, href)
urljoin(base, href) ==
  IF href.scheme # "" THEN href
  ELSE [href EXCEPT !.scheme = base.scheme, !.host = base.host]

\* str.lower() on the extensions the pages use
Lower(e) == IF e = ".PDF" THEN ".pdf" ELSE IF e = ".PNG" THEN ".png" ELSE e

\* os.path.basename(url) without its extension
BaseStem(url) ==
  IF url.path = "/a" THEN "a" ELSE IF url.path = "/b" THEN "b"
  ELSE IF url.path = "/c" THEN "c" ELSE url.path

\* ------------------------------------------------------------------- pages
A(href, text) == [tag |-> "a", ref |-> href, text |-> text]
Img(src, alt) == [tag |-> "img", ref |-> src, text |-> alt]

\* A page is its links in document order and the rest of its markup (body).
PgEmpty == [body |-> 0, links |-> <<>>]
PgA == [body |-> 0, links |-> <<A(Rel("/a", ".pdf"), "x")>>]
PgDup ==
  [body |-> 0,
   links |-> <<A(Rel("/a", ".pdf"), "x"), A(Rel("/a", ".pdf"), "y"),
               Img(Rel("/b", ".png"), "x"), A(Rel("/c", ".zip"), "")>>]
PageList == <<PgEmpty, PgA, PgDup>>
Pages == {PageList[i] : i \in 1..Len(PageList)}

\* hashlib.sha256(content.encode()).hexdigest(): a digest, one per content.
Hash(content) == CHOOSE i \in 1..Len(PageList) : PageList[i] = content

\* ------------------------------------------------------------ extract_files
EndsWithAny(url, exts) == Lower(url.ext) \in exts

AnchorFile(link, base_url) ==
  LET absolute_url == urljoin(base_url, link.ref)
      link_text == IF link.text = "" THEN BaseStem(absolute_url) ELSE link.text
  IN [name |-> link_text, url |-> absolute_url,
      type |-> IF EndsWithAny(absolute_url, DOCUMENT_EXTS) THEN "document" ELSE "image"]

ImgFile(img, base_url) ==
  LET absolute_url == urljoin(base_url, img.ref)
  IN [name |-> IF img.text = "" THEN BaseStem(absolute_url) ELSE img.text,
      url |-> absolute_url, type |-> "image"]

\* The files list before deduplication: the <a href> pass, then the <img> pass.
RawFiles(links, base_url) ==
  LET IsA(l) == l.tag = "a" /\ EndsWithAny(urljoin(base_url, l.ref), ALLOWED_EXTS)
      IsI(l) == l.tag = "img" /\ EndsWithAny(urljoin(base_url, l.ref), IMAGE_EXTS)
      as == SelectSeq(links, IsA)
      is == SelectSeq(links, IsI)
  IN [i \in 1..Len(as) |-> AnchorFile(as[i], base_url)]
     \o [i \in 1..Len(is) |-> ImgFile(is[i], base_url)]

\* list({f['url']: f for f in files}.values()): a url keeps the position of its
\* first occurrence and the value of its last.
RECURSIVE DictByUrl(_, _)
DictByUrl(files, acc) ==
  IF files = <<>> THEN acc
  ELSE LET f == Head(files)
           hit == {i \in 1..Len(acc) : acc[i].url = f.url}
       IN DictByUrl(Tail(files),
                    IF hit = {} THEN Append(acc, f)
                    ELSE [i \in 1..Len(acc) |-> IF i \in hit THEN f ELSE acc[i]])

extract_files(html_content, base_url) ==
  DictByUrl(RawFiles(html_content.links, base_url), <<>>)

\* ----------------------------------------------------- create_document_file
\* The manifest's name is "<domain>_files_<timestamp>.txt"; the model keeps the
\* domain (the timestamp has a resolution of one second).
ManifestName(url) == [base |-> <<get_domain(url), "_files_">>, ext |-> ".txt"]
ManifestSize(files) == Len(files) * 64
\* What create_document_file returns: the name, or None above MAX_FILE_SIZE
\* (the file is then removed again).
create_document_file(url, files) ==
  IF ManifestSize(files) > MAX_FILE_SIZE THEN NoFile ELSE ManifestName(url)

\* ------------------------------------------------------------ download_file
\* re.sub(r'[\\/*?:"<>|]', '_', name).strip() on the names the pages use
sanitize_filename(name) == IF name = "a/b" THEN "a_b" ELSE name

ContentTypes == {"text/html"}
ExtOfContentType(ct) == IF ct = "application/pdf" THEN ".pdf" ELSE ""

\* The path download_file writes to: f"{base_name}{ext}" in the working directory.
DownloadName(url, custom_name, content_type) ==
  [base |-> <<sanitize_filename(IF custom_name # "" THEN custom_name ELSE BaseStem(url))>>,
   ext |-> IF Lower(url.ext) # "" THEN Lower(url.ext) ELSE ExtOfContentType(content_type)]

\* What a download can do: write the file and return its name ("ok"), or fail
\* before the file is opened and return None ("fail").  A failure while the
\* body is read, after aiofiles.open created the file, is not explored.
DownloadOutcomes == {"ok", "fail"}

\* ------------------------------------------------------------------- store
\* user_data.json: an ordered mapping user_id -> {'tracked_urls': [...]}, kept
\* as the sequence of its items.
UserIds == {Str(OWNER_ID), Str(SudoId)}

HasUser(user_data, user_id) == \E i \in 1..Len(user_data) : user_data[i].user_id = user_id
IndexOfUser(user_data, user_id) ==
  CHOOSE i \in 1..Len(user_data) : user_data[i].user_id = user_id
TrackedUrls(user_data, user_id) ==
  IF HasUser(user_data, user_id)
  THEN user_data[IndexOfUser(user_data, user_id)].tracked_urls ELSE <<>>
IsTracked(user_data, user_id, url) ==
  \E i \in 1..Len(TrackedUrls(user_data, user_id)) :
     TrackedUrls(user_data, user_id)[i].url = url
EntryOf(user_data, user_id, url) ==
  LET t == TrackedUrls(user_data, user_id)
  IN t[CHOOSE i \in 1..Len(t) : t[i].url = url]
FileUrls(files) == {files[i].url : i \in 1..Len(files)}

VARIABLES
  disk,      \* user_data.json
  fs,        \* the files of the working directory (temporary artifacts)
  cyc,       \* the run of check_website_updates, if one is in flight
  trk,       \* the /track handler, if one is in flight
  fires,     \* scheduler fires so far
  cmds,      \* commands handled so far
  outbox,    \* what the last step delivered to chats
  hist,      \* per (user, url): what the last cycle fetched, and the files
             \* whose delivery failed in it
  delivered  \* files the bot has sent: <<task, user_id, url, file url>>

vars == <<disk, fs, cyc, trk, fires, cmds, outbox, hist, delivered>>

CycIdle ==
  [pc |-> "idle", user_data |-> <<>>, ui |-> 0, ei |-> 0,
   current_content |-> NoContent, current_files |-> <<>>, new_files |-> <<>>,
   fi |-> 0, filename |-> NoFile, txt_file |-> NoFile, same |-> FALSE, failed |-> {},
   fire |-> 0]

TrkIdle ==
  [pc |-> "idle", user_id |-> NoUser, url |-> NoUrl, current_files |-> <<>>,
   fi |-> 0, filename |-> NoFile]

NoHist == [last |-> "none", content |-> NoContent, failed |-> {}]

Init ==
  /\ disk = <<>>
  /\ fs = {}
  /\ cyc = CycIdle
  /\ trk = TrkIdle
  /\ fires = 0
  /\ cmds = 0
  /\ outbox = <<>>
  /\ hist = [o \in UserIds |-> [u \in PageUrls |-> NoHist]]
  /\ delivered = {}

\* What reaches a chat: a message or a document sent to chat_id by
\* client.send_message / client.send_document, or a reply_text to a command.
Message(chat_id, text) ==
  [kind |-> "message", chat_id |-> chat_id, body |-> text, file |-> NoUrl]
Document(chat_id, text, url) ==
  [kind |-> "document", chat_id |-> chat_id, body |-> text, file |-> url]
Reply(text) == [kind |-> "reply", chat_id |-> NoUser, body |-> text, file |-> NoUrl]

\* ---------------------------------------------------- check_website_updates
CurUser(c) == c.user_data[c.ui].user_id
CurEntry(c) == c.user_data[c.ui].tracked_urls[c.ei]

\* The first position of the nested loops at or after user number ui.
FirstFrom(user_data, ui) ==
  LET S == {j \in ui..Len(user_data) : user_data[j].tracked_urls # <<>>}
  IN IF S = {} THEN <<0, 0>>
     ELSE <<CHOOSE j \in S : \A k \in S : j <= k, 1>>

NextEntry(c) ==
  IF c.ei < Len(c.user_data[c.ui].tracked_urls) THEN <<c.ui, c.ei + 1>>
  ELSE FirstFrom(c.user_data, c.ui + 1)

AtEntry(user_data, pos) ==
  IF pos = <<0, 0>> THEN CycIdle
  ELSE [CycIdle EXCEPT !.pc = "entry", !.user_data = user_data,
                       !.ui = pos[1], !.ei = pos[2]]

\* A run in flight carries the number of the fire that started it.
WithFire(c, n) == IF c.pc = "idle" THEN c ELSE [c EXCEPT !.fire = n]

\* The loop moves on to the next tracked URL (or the run ends).
Continue(c) == WithFire(AtEntry(c.user_data, NextEntry(c)), c.fire)

\* `if not current_content: continue`; without the test the run would go on
\* to the notification with the failed fetch as the page's new content.
OnFetchFailureAsChange(c) == [c EXCEPT !.pc = "notify"]
OnFetchFailure(c) == Continue(c)

\* [f for f in current_files if f not in stored_files]: `in` compares the dicts.
NewFiles(current_files, stored_files) ==
  LET IsNew(f) == ~ \E i \in 1..Len(stored_files) : stored_files[i] = f
  IN SelectSeq(current_files, IsNew)

\* stored_files.append(file); url_info['files'] = stored_files;
\* url_info['hash'] = current_hash  (on the run's own copy of the store)
RecordSent(c, file) ==
  [c EXCEPT !.user_data[c.ui].tracked_urls[c.ei].files = Append(@, file),
            !.user_data[c.ui].tracked_urls[c.ei].hash = Hash(c.current_content)]

Remember(o, url, last, content, failed) ==
  [hist EXCEPT ![o][url] = [last |-> last, content |-> content, failed |-> failed]]

\* The scheduler's interval job: a fire while a run is in flight is skipped
\* (the job's max_instances is 1).  The run loads the store once.
Fire ==
  /\ cyc.pc = "idle"
  /\ fires < MaxFires
  /\ fires' = fires + 1
  /\ cyc' = WithFire(AtEntry(disk, FirstFrom(disk, 1)), fires + 1)
  /\ outbox' = <<>>
  /\ UNCHANGED <<disk, fs, trk, cmds, hist, delivered>>

\* What a fire of the interval job does to the run in flight: the job was
\* added with the scheduler's default of one running instance (line 425), so
\* the fire is skipped and the run goes on.  With more instances allowed the
\* fire would start a run of its own.
OnFireStartsRun(c) == WithFire(AtEntry(disk, FirstFrom(disk, 1)), fires + 1)
OnFireWhileRunning(c) == c

\* The interval passes while the run of the previous fire is suspended at an
\* await.
FireSkipped ==
  /\ cyc.pc \notin {"idle", "entry"}
  /\ fires < MaxFires
  /\ fires' = fires + 1
  /\ cyc' = OnFireWhileRunning(cyc)
  /\ outbox' = <<>>
  /\ UNCHANGED <<disk, fs, trk, cmds, hist, delivered>>

\* What the comparison of line 192 finds for fetched content r.
FetchResult(r, stored_hash) ==
  IF r = NoContent THEN "fetch_failed"
  ELSE IF Hash(r) = stored_hash THEN "unchanged"
  ELSE "changed"

\* Lines 181-192: fetch (r is what fetch_url_content returns), hash, extract,
\* compare.
CheckEntry(r) ==
  /\ cyc.pc = "entry"
  /\ LET url == CurEntry(cyc).url
         o == CurUser(cyc)
         result == FetchResult(r, CurEntry(cyc).hash)
     IN /\ cyc' = IF result = "fetch_failed" THEN OnFetchFailure(cyc)
                  ELSE IF result = "unchanged" THEN Continue(cyc)
                  ELSE [cyc EXCEPT !.pc = "notify", !.current_content = r,
                                   !.current_files = extract_files(r, url),
                                   !.same = (hist[o][url].content = r)]
        /\ hist' = IF result = "changed" THEN hist ELSE Remember(o, url, result, r, {})
  /\ outbox' = <<>>
  /\ UNCHANGED <<disk, fs, trk, fires, cmds, delivered>>

\* Lines 193-216: the "Website Updated" message has been sent (ok) or has
\* raised; the diff; the manifest is written and its send begins.
NotifyDone(ok) ==
  /\ cyc.pc = "notify"
  /\ LET url == CurEntry(cyc).url
         o == CurUser(cyc)
         new_files == NewFiles(cyc.current_files, CurEntry(cyc).files)
         txt_file == create_document_file(url, new_files)
     IN /\ outbox' = IF ok THEN <<Message(o, "Website Updated")>> ELSE <<>>
        /\ IF new_files = <<>>
           THEN /\ cyc' = Continue(cyc)
                /\ hist' = Remember(o, url, "changed", cyc.current_content, {})
                /\ fs' = fs
           ELSE /\ cyc' = IF txt_file # NoFile
                          THEN [cyc EXCEPT !.pc = "manifest", !.new_files = new_files,
                                           !.txt_file = txt_file]
                          ELSE [cyc EXCEPT !.pc = "download", !.new_files = new_files,
                                           !.fi = 1]
                /\ hist' = hist
                /\ fs' = IF txt_file # NoFile THEN fs \cup {txt_file} ELSE fs
  /\ UNCHANGED <<disk, trk, fires, cmds, delivered>>

\* Lines 208-215: the manifest's send has succeeded (the file is removed) or
\* has raised (the except clause logs; the file stays).
ManifestDone(ok) ==
  /\ cyc.pc = "manifest"
  /\ ok => cyc.txt_file \in fs
  /\ outbox' = IF ok THEN <<Document(CurUser(cyc), "New Files List", NoUrl)>> ELSE <<>>
  /\ fs' = IF ok THEN fs \ {cyc.txt_file} ELSE fs
  /\ cyc' = [cyc EXCEPT !.pc = "download", !.fi = 1, !.txt_file = NoFile]
  /\ UNCHANGED <<disk, trk, fires, cmds, hist, delivered>>

\* After the `finally` of file number fi: the next file, or save_user_data and
\* the next tracked URL.
AfterFile(c, files_left) ==
  /\ fs' = files_left
  /\ IF c.fi < Len(c.new_files)
     THEN /\ cyc' = [c EXCEPT !.pc = "download", !.fi = c.fi + 1, !.filename = NoFile]
          /\ disk' = disk
          /\ hist' = hist
     ELSE /\ cyc' = Continue(c)
          /\ disk' = c.user_data
          /\ hist' = Remember(CurUser(c), CurEntry(c).url, "changed", c.current_content,
                            c.failed)

\* Line 221: download_file has returned.
DownloadDone(outcome, content_type) ==
  /\ cyc.pc = "download"
  /\ LET file == cyc.new_files[cyc.fi]
         name == DownloadName(file.url, file.name, content_type)
     IN /\ fs' = IF outcome = "ok" THEN fs \cup {name} ELSE fs
        /\ cyc' = IF outcome = "ok"
                  THEN [cyc EXCEPT !.pc = "send", !.filename = name]
                  ELSE [cyc EXCEPT !.pc = "report", !.filename = NoFile,
                                   !.failed = @ \cup {file}]
  /\ outbox' = <<>>
  /\ UNCHANGED <<disk, trk, fires, cmds, hist, delivered>>

\* Lines 225-234 and 241-245: send_document has returned (ok) or has raised.
SendDone(ok) ==
  /\ cyc.pc = "send"
  /\ ok => cyc.filename \in fs
  /\ LET file == cyc.new_files[cyc.fi]
         o == CurUser(cyc)
     IN IF ok
        THEN /\ outbox' = <<Document(o, "New file", file.url)>>
             /\ delivered' = delivered \cup {<<"cycle", o, CurEntry(cyc).url, file.url>>}
             /\ AfterFile(RecordSent(cyc, file), fs \ {cyc.filename})
        ELSE /\ outbox' = <<>>
             /\ delivered' = delivered
             /\ cyc' = [cyc EXCEPT !.pc = "report", !.failed = @ \cup {file}]
             /\ UNCHANGED <<disk, hist, fs>>
  /\ UNCHANGED <<trk, fires, cmds>>

\* Lines 236-245: the error report of the except clause has been sent (ok), or
\* has raised: then the `finally` runs and the exception leaves the run.
ReportDone(ok) ==
  /\ cyc.pc = "report"
  /\ LET o == CurUser(cyc)
     IN IF ok
        THEN /\ outbox' = <<Message(o, "Error sending")>>
             /\ AfterFile(cyc, fs \ {cyc.filename})
        ELSE /\ outbox' = <<>>
             /\ cyc' = CycIdle
             /\ fs' = fs \ {cyc.filename}
             /\ hist' = Remember(o, CurEntry(cyc).url, "changed", cyc.current_content,
                              cyc.failed)
             /\ disk' = disk
  /\ UNCHANGED <<trk, fires, cmds, delivered>>

\* ---------------------------------------------------------------- commands
\* A message: the type of its chat, its from_user.id (NoId when from_user is
\* None, as in a channel post) and its chat.id.  The senders of the explored
\* runs: the owner in a private chat and in a group, a user who is neither
\* owner nor sudo, and a channel post.
Private(id) == [chat_type |-> "private", from_id |-> id, chat_id |-> id]
Senders ==
  {Private(OWNER_ID), Private(StrangerId),
   [chat_type |-> "group", from_id |-> OWNER_ID, chat_id |-> GroupId],
   [chat_type |-> "channel", from_id |-> NoId, chat_id |-> ChannelId]}

\* str(message.from_user.id or message.chat.id); from_user is None in a
\* channel post, and reading its id raises.
SenderRaises(sender) == sender.from_id = NoId
UserIdOf(sender) == Str(sender.from_id)

\* The authorization check of track (lines 272-282): "" when it passes.
AuthReply(sender) ==
  IF sender.chat_type = "private"
  THEN IF is_authorized_user(sender.from_id) THEN "" ELSE "Unauthorized."
  ELSE IF sender.chat_type = "channel"
  THEN IF is_authorized_channel(sender.chat_id) THEN "" ELSE "Unauthorized channel."
  ELSE "Command not allowed here."

\* user_data[user_id]['tracked_urls'].append(entry), the key created when absent
WithEntry(user_data, user_id, entry) ==
  IF HasUser(user_data, user_id)
  THEN [user_data EXCEPT ![IndexOfUser(user_data, user_id)].tracked_urls = Append(@, entry)]
  ELSE Append(user_data, [user_id |-> user_id, tracked_urls |-> <<entry>>])

\* track without the test of line 295.
TrackRejectNoDup(sender, url, user_data) ==
  IF AuthReply(sender) # "" THEN AuthReply(sender)
  ELSE IF SenderRaises(sender) THEN "raised"
  ELSE IF ~ StartsWithHttp(url) THEN "Invalid URL format."
  ELSE ""

\* What track answers before it fetches (lines 272-297), in the order of its
\* checks: "" when they all pass.
TrackReject(sender, url, user_data) ==
  IF AuthReply(sender) # "" THEN AuthReply(sender)
  ELSE IF SenderRaises(sender) THEN "raised"
  ELSE IF ~ StartsWithHttp(url) THEN "Invalid URL format."
  ELSE IF IsTracked(user_data, UserIdOf(sender), url) THEN "Already tracking this URL."
  ELSE ""

\* What track answers (lines 272-302); content is what the fetch returned.
TrackResult(sender, url, user_data, content) ==
  IF TrackReject(sender, url, user_data) # "" THEN TrackReject(sender, url, user_data)
  ELSE IF content = NoContent THEN "Failed to access URL."
  ELSE "ok"

\* What fetch_url_content can return to track: it is called only when the
\* checks before it pass.
TrackFetches(sender, url) ==
  IF TrackReject(sender, url, disk) # "" THEN {NoContent} ELSE Pages \cup {NoContent}

\* track up to the first await of its success path: the checks, the fetch
\* (content is what fetch_url_content returns), the store write, and the
\* "Found n files" reply.
TrackCmd(sender, url, content) ==
  /\ trk.pc = "idle"
  /\ cyc.pc # "entry"
  /\ cmds < MaxCmds
  /\ cmds' = cmds + 1
  /\ LET user_data == disk
         result == TrackResult(sender, url, user_data, content)
         user_id == UserIdOf(sender)
         current_files == extract_files(content, url)
         entry == [url |-> url, hash |-> Hash(content), files |-> current_files]
     IN IF result = "ok"
        THEN /\ disk' = WithEntry(user_data, user_id, entry)
             /\ hist' = [hist EXCEPT ![user_id][url] = NoHist]
             /\ IF current_files # <<>>
                THEN /\ trk' = [pc |-> "download", user_id |-> user_id, url |-> url,
                                current_files |-> current_files, fi |-> 1,
                                filename |-> NoFile]
                     /\ outbox' = <<Reply("Found files")>>
                ELSE /\ trk' = TrkIdle
                     /\ outbox' = <<Reply("Tracking started")>>
        ELSE /\ outbox' = IF result = "raised" THEN <<>> ELSE <<Reply(result)>>
             /\ UNCHANGED <<disk, hist, trk>>
  /\ UNCHANGED <<fs, cyc, fires, delivered>>

\* The loop of lines 317-330 moves on, or track ends with its last reply.
TrkNext(t) ==
  IF t.fi < Len(t.current_files)
  THEN [t EXCEPT !.pc = "download", !.fi = t.fi + 1, !.filename = NoFile]
  ELSE TrkIdle
TrkLastReply(t) ==
  IF t.fi < Len(t.current_files) THEN <<>> ELSE <<Reply("Tracking started")>>

\* Line 318: download_file has returned.
TrkDownloadDone(outcome, content_type) ==
  /\ trk.pc = "download"
  /\ cyc.pc # "entry"
  /\ LET file == trk.current_files[trk.fi]
         name == DownloadName(file.url, file.name, content_type)
     IN /\ fs' = IF outcome = "ok" THEN fs \cup {name} ELSE fs
        /\ trk' = IF outcome = "ok" THEN [trk EXCEPT !.pc = "send", !.filename = name]
                  ELSE TrkNext(trk)
        /\ outbox' = IF outcome = "ok" THEN <<>>
                     ELSE <<Reply("Failed to download")>> \o TrkLastReply(trk)
  /\ UNCHANGED <<disk, cyc, fires, cmds, hist, delivered>>

\* Lines 321-328: send_document has returned (ok), or has raised: the
\* `finally` removes the file and the exception leaves the handler.
TrkSendDone(ok) ==
  /\ trk.pc = "send"
  /\ cyc.pc # "entry"
  /\ ok => trk.filename \in fs
  /\ LET file == trk.current_files[trk.fi]
     IN /\ fs' = fs \ {trk.filename}
        /\ trk' = IF ok THEN TrkNext(trk) ELSE TrkIdle
        /\ outbox' = IF ok THEN <<Document(trk.user_id, "File", file.url)>> \o TrkLastReply(trk)
                     ELSE <<>>
        /\ delivered' = IF ok
                        THEN delivered \cup {<<"track", trk.user_id, trk.url, file.url>>}
                        ELSE delivered
  /\ UNCHANGED <<disk, cyc, fires, cmds, hist>>

\* The list comprehension of untrack (lines 346-349); a filter that kept
\* nothing would empty the sender's collection.
WithoutAll(tracked_urls, url) == <<>>
WithoutUrl(tracked_urls, url) ==
  LET Keep(u) == u.url # url IN SelectSeq(tracked_urls, Keep)

UntrackResult(sender, url, user_data) ==
  IF SenderRaises(sender) THEN "raised"
  ELSE IF ~ HasUser(user_data, UserIdOf(sender)) THEN "No tracked URLs."
  ELSE IF IsTracked(user_data, UserIdOf(sender), url) THEN "Stopped tracking"
  ELSE "URL not found"

\* untrack: the handler has no authorization check.
Untrack(sender, url) ==
  /\ cyc.pc # "entry"
  /\ cmds < MaxCmds
  /\ cmds' = cmds + 1
  /\ LET user_data == disk
         user_id == UserIdOf(sender)
         result == UntrackResult(sender, url, user_data)
     IN /\ outbox' = IF result = "raised" THEN <<>> ELSE <<Reply(result)>>
        /\ IF result = "Stopped tracking"
           THEN /\ disk' = [user_data EXCEPT
                             ![IndexOfUser(user_data, user_id)].tracked_urls =
                                WithoutUrl(@, url)]
                /\ hist' = [hist EXCEPT ![user_id][url] = NoHist]
           ELSE UNCHANGED <<disk, hist>>
  /\ UNCHANGED <<fs, cyc, trk, fires, delivered>>

ListResult(sender, url, user_data, ok) ==
  IF SenderRaises(sender) THEN "raised"
  ELSE IF TrackedUrls(user_data, UserIdOf(sender)) = <<>> THEN "No tracked URLs"
  ELSE IF ~ IsTracked(user_data, UserIdOf(sender), url) THEN "URL not tracked"
  ELSE IF EntryOf(user_data, UserIdOf(sender), url).files = <<>> THEN "No files found"
  ELSE IF ok THEN "sent"
  ELSE "Error sending file list"

\* Whether the send of list_documents succeeds; it is reached only when the
\* url has stored files.
ListSends(sender, url) ==
  IF ListResult(sender, url, disk, TRUE) = "sent" THEN BOOLEAN ELSE {FALSE}

\* list_documents: the manifest of the stored files is written, sent and
\* removed; when the send raises (ok is false), the remove is skipped.
ListDocuments(sender, url, ok) ==
  /\ cyc.pc # "entry"
  /\ cmds < MaxCmds
  /\ cmds' = cmds + 1
  /\ LET user_data == disk
         user_id == UserIdOf(sender)
         result == ListResult(sender, url, user_data, ok)
     IN /\ outbox' = IF result = "raised" THEN <<>>
                     ELSE IF result = "sent" THEN <<Document(user_id, "Files at", NoUrl)>>
                     ELSE <<Reply(result)>>
        /\ fs' = IF result = "Error sending file list"
                 THEN fs \cup {create_document_file(url, EntryOf(user_data, user_id, url).files)}
                 ELSE fs
  /\ UNCHANGED <<disk, cyc, trk, fires, hist, delivered>>

Next ==
  \/ Fire
  \/ \E r \in Pages \cup {NoContent} : CheckEntry(r)
  \/ \E ok \in BOOLEAN : NotifyDone(ok)
  \/ \E ok \in BOOLEAN : ManifestDone(ok)
  \/ \E outcome \in DownloadOutcomes, ct \in ContentTypes : DownloadDone(outcome, ct)
  \/ \E ok \in BOOLEAN : SendDone(ok)
  \/ \E ok \in BOOLEAN : ReportDone(ok)
  \/ \E sender \in Senders, url \in CmdUrls :
       \E content \in TrackFetches(sender, url) : TrackCmd(sender, url, content)
  \/ \E outcome \in DownloadOutcomes, ct \in ContentTypes : TrkDownloadDone(outcome, ct)
  \/ \E ok \in BOOLEAN : TrkSendDone(ok)
  \/ \E sender \in Senders, url \in CmdUrls : Untrack(sender, url)
  \/ \E sender \in Senders, url \in CmdUrls :
       \E ok \in ListSends(sender, url) : ListDocuments(sender, url, ok)

Spec == Init /\ [][Next]_vars

\* In Spec every run ends within the interval of the job (CHECK_INTERVAL is 30
\* minutes).  SpecTimer also has the runs that outlast it: the interval can
\* pass at any await of a run.
NextTimer == Next \/ FireSkipped
SpecTimer == Init /\ [][NextTimer]_vars


\* ------------------------------------------- a store that holds two entries
\* user_data.json as a bot that has run before finds it: the owner tracks U1
\* and U2, both read when their page had no files.  The fires of the earlier
\* runs are spent: one fire is explored from this store.
StoredEntry(url) == [url |-> url, hash |-> Hash(PgEmpty), files |-> <<>>]
InitStore ==
  /\ disk = <<[user_id |-> Str(OWNER_ID),
               tracked_urls |-> <<StoredEntry(U1), StoredEntry(U2)>>]>>
  /\ fs = {}
  /\ cyc = CycIdle
  /\ trk = TrkIdle
  /\ fires = MaxFires - 1
  /\ cmds = 0
  /\ outbox = <<>>
  /\ hist = [o \in UserIds |-> [u \in PageUrls |-> NoHist]]
  /\ delivered = {}

\* The pages the urls serve and the senders of the commands in the runs
\* explored from this store: the owner and the sudo user, in private chats.
StorePages == {PgA}
StoreSenders == {Private(OWNER_ID), Private(SudoId)}

NextStore ==
  \/ Fire
  \/ \E r \in StorePages \cup {NoContent} : CheckEntry(r)
  \/ \E ok \in BOOLEAN : NotifyDone(ok)
  \/ \E ok \in BOOLEAN : ManifestDone(ok)
  \/ \E outcome \in DownloadOutcomes, ct \in ContentTypes : DownloadDone(outcome, ct)
  \/ \E ok \in BOOLEAN : SendDone(ok)
  \/ \E ok \in BOOLEAN : ReportDone(ok)
  \/ \E sender \in StoreSenders, url \in PageUrls :
       \E content \in TrackFetches(sender, url) \cap (StorePages \cup {NoContent}) :
          TrackCmd(sender, url, content)
  \/ \E outcome \in DownloadOutcomes, ct \in ContentTypes : TrkDownloadDone(outcome, ct)
  \/ \E ok \in BOOLEAN : TrkSendDone(ok)
  \/ \E sender \in StoreSenders, url \in PageUrls : Untrack(sender, url)
  \/ \E sender \in StoreSenders, url \in PageUrls :
       \E ok \in ListSends(sender, url) : ListDocuments(sender, url, ok)

SpecStore == InitStore /\ [][NextStore]_vars

\* ------------------------------------------------------------------ claims
\* The run is between the downloads and sends of the new files of its current
\* tracked URL.
CycDelivering == cyc.pc \in {"download", "send", "report"}
FileSet(files) == {files[i] : i \in 1..Len(files)}
\* C1 (idempotence): a step of a check cycle on a tracked URL whose fetched
\* content is the content the previous cycle fetched for it delivers nothing
\* to any chat and leaves the persisted store as it was.
C1_Idempotent ==
  [][(cyc.pc # "idle" /\ cyc.same /\ cyc' # cyc)
       => (outbox' = <<>> /\ disk' = disk)]_vars

\* C2 (at-least-once): when a cycle fetches, for a tracked URL, the content the
\* previous cycle fetched for it, every file whose delivery failed in that
\* previous cycle is outside the stored files and is offered as new again.
C2_FailedFileReoffered ==
  [][\A r \in Pages :
       (/\ CheckEntry(r)
        /\ hist[CurUser(cyc)][CurEntry(cyc).url].content = r
        /\ hist[CurUser(cyc)][CurEntry(cyc).url].failed # {})
       => \A F \in hist[CurUser(cyc)][CurEntry(cyc).url].failed :
            /\ F \notin FileSet(CurEntry(cyc).files)
            /\ cyc'.pc = "notify"
            /\ F \in FileSet(NewFiles(cyc'.current_files, CurEntry(cyc).files))]_vars

\* C3 (no new files): when the hash differs and no file is new, the cycle
\* writes the new hash to the persisted TrackedURL (its files unchanged).
C3_HashUpdatedWithoutNewFiles ==
  [][\A ok \in BOOLEAN :
       (/\ NotifyDone(ok)
        /\ NewFiles(cyc.current_files, CurEntry(cyc).files) = <<>>
        /\ IsTracked(disk, CurUser(cyc), CurEntry(cyc).url))
       => /\ IsTracked(disk', CurUser(cyc), CurEntry(cyc).url)
          /\ EntryOf(disk', CurUser(cyc), CurEntry(cyc).url).hash
               = Hash(cyc.current_content)
          /\ EntryOf(disk', CurUser(cyc), CurEntry(cyc).url).files
               = EntryOf(disk, CurUser(cyc), CurEntry(cyc).url).files]_vars

\* C4 (diff by url): the files a cycle offers as new are exactly the current
\* files whose url is the url of no stored file.
C4_DiffByUrl ==
  [][\A ok \in BOOLEAN :
       NotifyDone(ok)
       => (IF cyc'.pc \in {"manifest", "download"} THEN FileSet(cyc'.new_files) ELSE {})
          = {f \in FileSet(cyc.current_files) :
               f.url \notin FileUrls(CurEntry(cyc).files)}]_vars

\* C5 (duplicate suppression): a check cycle never sends to an owner a file
\* url that a check cycle has already sent to that owner for that tracked URL.
C5_NoSecondSend ==
  [][SendDone(TRUE)
       => <<"cycle", CurUser(cyc), CurEntry(cyc).url, cyc.new_files[cyc.fi].url>>
            \notin delivered]_vars

\* C6 (per-file isolation): a delivery pass, of a check cycle or of track, ends
\* only after its last file has been attempted.
C6_PassAttemptsEveryFile ==
  [][/\ (CycDelivering /\ cyc'.pc \in {"idle", "entry"})
          => cyc.fi = Len(cyc.new_files)
     /\ (trk.pc # "idle" /\ trk'.pc = "idle")
          => trk.fi = Len(trk.current_files)]_vars

\* C7 (cleanup): the working directory holds no temporary file other than the
\* ones of the delivery attempts in flight.
TempsInFlight ==
  (IF cyc.pc = "manifest" THEN {cyc.txt_file} ELSE {})
  \cup (IF cyc.pc \in {"send", "report"} THEN {cyc.filename} ELSE {})
  \cup (IF trk.pc = "send" THEN {trk.filename} ELSE {})
C7_NoTempLeft == fs \subseteq TempsInFlight

\* C8 (fetch failure): a failed fetch leaves the persisted store, the run's
\* copy of it and the working directory as they were, sends nothing, records no
\* delivery, and the run moves on to its next tracked URL or ends; the
\* scheduler's state is untouched, so the next fire loads the same TrackedURL.
C8_FetchFailureHarmless ==
  [][CheckEntry(NoContent)
       => /\ disk' = disk
          /\ outbox' = <<>>
          /\ fs' = fs
          /\ delivered' = delivered
          /\ fires' = fires
          /\ cyc'.pc \in {"idle", "entry"}
          /\ cyc'.pc = "entry"
               => /\ cyc'.user_data = cyc.user_data
                  /\ <<cyc'.ui, cyc'.ei>> # <<cyc.ui, cyc.ei>>]_vars

\* A cycle is processing, as changed, a tracked URL with stored files whose
\* previous cycle failed to fetch.
C8_Witness ==
  /\ cyc.pc = "notify"
  /\ hist[CurUser(cyc)][CurEntry(cyc).url].last = "fetch_failed"
  /\ CurEntry(cyc).files # <<>>
  /\ IsTracked(disk, CurUser(cyc), CurEntry(cyc).url)

\* C9 (stored implies delivered): every stored file of a TrackedURL has been
\* sent to its owner, or is a file of the track in flight for that TrackedURL
\* whose initial delivery has not been attempted yet.
TrackPending(o, url) ==
  IF trk.pc # "idle" /\ trk.user_id = o /\ trk.url = url
  THEN {trk.current_files[i].url : i \in trk.fi..Len(trk.current_files)}
  ELSE {}
C9_StoredWasDelivered ==
  \A i \in 1..Len(disk) :
    \A j \in 1..Len(disk[i].tracked_urls) :
      \A f \in FileSet(disk[i].tracked_urls[j].files) :
        \/ \E t \in {"cycle", "track"} :
             <<t, disk[i].user_id, disk[i].tracked_urls[j].url, f.url>> \in delivered
        \/ f.url \in TrackPending(disk[i].user_id, disk[i].tracked_urls[j].url)

\* C10 (track rejects): a track whose url is malformed, is already tracked by
\* the sender or cannot be fetched answers with an error and leaves the
\* persisted store as it was; a track that changes the store is none of these
\* and appends exactly {url, hash of the content, extracted files} to the
\* sender's collection, every other collection unchanged.
C10_TrackRejects ==
  [][(trk.pc = "idle" /\ cmds' # cmds) =>
     \A sender \in Senders, url \in CmdUrls :
     \A content \in TrackFetches(sender, url) :
       TrackCmd(sender, url, content)
       => LET uid == Str(sender.from_id)
              rejected ==
                \/ url.scheme \notin {"http://", "https://"}
                \/ \E i \in 1..Len(disk) :
                     /\ disk[i].user_id = uid
                     /\ \E j \in 1..Len(disk[i].tracked_urls) :
                          disk[i].tracked_urls[j].url = url
                \/ content = NoContent
          IN /\ rejected
                  => /\ disk' = disk
                     /\ Len(outbox') = 1
                     /\ outbox'[1].kind = "reply"
                     /\ outbox'[1].body \notin {"Found files", "Tracking started"}
             /\ disk' # disk
                  => /\ ~ rejected
                     /\ TrackedUrls(disk', uid)
                          = Append(TrackedUrls(disk, uid),
                                   [url |-> url, hash |-> Hash(content),
                                    files |-> extract_files(content, url)])
                     /\ \A o \in UserIds \ {uid} :
                          TrackedUrls(disk', o) = TrackedUrls(disk, o)]_vars

\* A track of an already tracked url has just been rejected.
C10_Witness ==
  /\ outbox = <<Reply("Already tracking this URL.")>>
  /\ IsTracked(disk, Str(OWNER_ID), U1)

\* C11 (untrack frame): an untrack of a url the sender tracks removes the
\* entry of that url, and only it, from the sender's collection and answers
\* "Stopped tracking"; an untrack of a url the sender does not track leaves the
\* persisted store as it was and answers with an error; either way every other
\* owner's collection is unchanged.
C11_UntrackFrame ==
  [][cmds' # cmds =>
     \A sender \in StoreSenders, url \in PageUrls :
       Untrack(sender, url)
       => LET uid == Str(sender.from_id)
              before == TrackedUrls(disk, uid)
              after == TrackedUrls(disk', uid)
          IN /\ \A o \in UserIds \ {uid} : TrackedUrls(disk', o) = TrackedUrls(disk, o)
             /\ IF \E i \in 1..Len(before) : before[i].url = url
                THEN /\ Len(after) = Len(before) - 1
                     /\ \A e \in FileSet(before) : e.url # url => e \in FileSet(after)
                     /\ \A e \in FileSet(after) : e \in FileSet(before) /\ e.url # url
                     /\ outbox' = <<Reply("Stopped tracking")>>
                ELSE /\ disk' = disk
                     /\ outbox' \in {<<Reply("No tracked URLs.")>>, <<Reply("URL not found")>>}]_vars

\* The owner has just untracked one of two urls while the sudo user tracks one.
C11_Witness ==
  /\ outbox = <<Reply("Stopped tracking")>>
  /\ Len(TrackedUrls(disk, Str(OWNER_ID))) = 1
  /\ TrackedUrls(disk, Str(SudoId)) # <<>>

\* C12 (authorization): a track or untrack whose sender is not authorized (a
\* private chat with a user who is neither owner nor sudo, a channel that is
\* not on the allow-list, any other type of chat) leaves the persisted store
\* as it was and is not answered as a success.
Unauthorized(sender) ==
  \/ sender.chat_type = "private" /\ ~ is_authorized_user(sender.from_id)
  \/ sender.chat_type = "channel" /\ ~ is_authorized_channel(sender.chat_id)
  \/ sender.chat_type \notin {"private", "channel"}
C12_UnauthorizedRejected ==
  [][cmds' # cmds =>
     \A sender \in Senders, url \in CmdUrls :
       (/\ Unauthorized(sender)
        /\ \/ Untrack(sender, url)
           \/ \E content \in TrackFetches(sender, url) : TrackCmd(sender, url, content))
       => /\ disk' = disk
          /\ outbox' \notin {<<Reply("Stopped tracking")>>, <<Reply("Found files")>>,
                             <<Reply("Tracking started")>>}]_vars

\* C13 (no duplicate url per owner): in the persisted store no owner's
\* collection holds two entries with the same url.
C13_NoDuplicateUrl ==
  \A i \in 1..Len(disk) :
    \A j, k \in 1..Len(disk[i].tracked_urls) :
      disk[i].tracked_urls[j].url = disk[i].tracked_urls[k].url => j = k

\* A second track of a url has just been rejected for an owner with two entries.
C13_Witness ==
  /\ outbox = <<Reply("Already tracking this URL.")>>
  /\ Len(TrackedUrls(disk, Str(OWNER_ID))) = 2
  /\ cmds > 0

\* C14 (no lost update): a step of a check cycle that writes the persisted
\* store changes nothing but the hash and files of the entry the run is
\* processing: every (owner, url) is tracked after the write exactly when it
\* was tracked before it, and every other entry is the entry it was.
C14_NoLostUpdate ==
  [][(cyc.pc # "idle" /\ cyc' # cyc /\ disk' # disk)
       => \A o \in UserIds, u \in PageUrls :
            /\ IsTracked(disk', o, u) <=> IsTracked(disk, o, u)
            /\ (IsTracked(disk, o, u) /\ <<o, u>> # <<CurUser(cyc), CurEntry(cyc).url>>)
                 => EntryOf(disk', o, u) = EntryOf(disk, o, u)]_vars

\* C15 (cross-url isolation): a run of the check cycle ends only at the last
\* tracked url of the store it loaded, whatever failed on the way.
C15_RunReachesEveryUrl ==
  [][(cyc.pc # "idle" /\ cyc'.pc = "idle") => NextEntry(cyc) = <<0, 0>>]_vars

\* C16 (file-set uniqueness): in the persisted store the files of a TrackedURL
\* hold at most one record per file url.
C16_StoredFileUrlsUnique ==
  \A i \in 1..Len(disk) :
    \A j \in 1..Len(disk[i].tracked_urls) :
      LET files == disk[i].tracked_urls[j].files
      IN \A a, b \in 1..Len(files) : files[a].url = files[b].url => a = b

\* C17 (commit ordering): while a run is delivering the new files of a tracked
\* URL its steps leave the persisted store alone until the pass ends; and when
\* a pass in which a file was sent ends, the persisted entry of that tracked
\* URL has the hash of the fetched content.
C17_CommitAfterPass ==
  [][(CycDelivering /\ cyc' # cyc)
       => LET o == CurUser(cyc)
              url == CurEntry(cyc).url
              sent == \/ CurEntry(cyc).hash = Hash(cyc.current_content)
                      \/ delivered' # delivered
          IN /\ cyc'.pc \notin {"idle", "entry"} => disk' = disk
             /\ (cyc'.pc \in {"idle", "entry"} /\ sent)
                  => /\ IsTracked(disk', o, url)
                     /\ EntryOf(disk', o, url).hash = Hash(cyc.current_content)]_vars

\* C18 (temporary-path exclusivity): the check cycle and a track handler are
\* never both between download_file and the removal of its file with the same
\* path.
C18_TempPathsDisjoint ==
  ~ (/\ cyc.pc \in {"send", "report"}
     /\ cyc.filename # NoFile
     /\ trk.pc = "send"
     /\ trk.filename = cyc.filename)

C20_StoredFilesOnlyGrow ==
  [][(cyc.pc # "idle" /\ cyc' # cyc)
       => /\ \A o \in UserIds, u \in PageUrls :
               (IsTracked(disk, o, u) /\ IsTracked(disk', o, u))
                 => FileSet(EntryOf(disk, o, u).files)
                      \subseteq FileSet(EntryOf(disk', o, u).files)
          /\ (cyc'.pc # "idle" /\ cyc'.user_data # cyc.user_data)
               => /\ cyc.pc = "send"
                  /\ outbox' = <<Document(CurUser(cyc), "New file",
                                          cyc.new_files[cyc.fi].url)>>
                  /\ cyc'.user_data = RecordSent(cyc, cyc.new_files[cyc.fi]).user_data]_vars

=============================================================================
